---------------------------- MODULE Spec2Model ----------------------------
(***************************************************************************)
(* The workflow engine of backend/app/services/workflow_engine.py and the  *)
(* audit sink of backend/app/services/audit_service.py.                    *)
(*                                                                         *)
(* A run of run_workflow owns one context dict and walks its step list in  *)
(* order.  The body of a step (StepDef.run) is foreign code: the model     *)
(* lets it return any mapping over Keys or raise an Exception.  Python     *)
(* dicts are modelled as functions (iteration order is abstracted: where   *)
(* the code depends on it the model chooses nondeterministically), Python  *)
(* lists as sequences.  Wall-clock values (start, duration_ms, created_at) *)
(* are left out of the audit rows.  Values held under a key are treated as *)
(* immutable, and the name audit_service in the engine is taken to denote  *)
(* the AuditService instance, whose log_action commits one row per call.   *)
(***************************************************************************)
EXTENDS Integers, Sequences, FiniteSets, TLC

\* ------------------------------------------------------------------ bounds
MaxSteps == 2     \* longest step list handed to run_workflow
MaxListLen == 2   \* longest key list _filter_context is tried on

\* ------------------------------------------------------------- input sets
\* Optional[T]: None is the empty set, a present value x is {x}
None == {}
Some(x) == {x}
The(o) == CHOOSE x \in o : TRUE

Keys == {"a", "b"}
Vals == {0, 1}
Runs == {1}

\* every dict over Keys
Dicts == UNION {[D -> Vals] : D \in SUBSET Keys}

\* every list of keys up to MaxListLen, repetitions included
KeyLists == UNION {[1 .. n -> Keys] : n \in 0 .. MaxListLen}

\* allowed_outputs as a step may declare them (Python lists: order is kept)
OutLists == {<<>>, <<"b">>, <<"a", "b">>}

\* StepDef(name, allowed_inputs, allowed_outputs, is_external, run); run is
\* the foreign callable, see StepReturns / StepRaises.  The steps a list is
\* built from: a local step reading "a" and an external one reading "b"
\* and "a", each with any of the output lists.
StepDef(name, allowed_inputs, allowed_outputs, is_external) ==
    [name |-> name, allowed_inputs |-> allowed_inputs,
     allowed_outputs |-> allowed_outputs, is_external |-> is_external]
StepDefs ==
    {StepDef("local", <<"a">>, o, FALSE) : o \in OutLists}
    \cup {StepDef("remote", <<"b", "a">>, o, TRUE) : o \in OutLists}

StepLists == UNION {[1 .. n -> StepDefs] : n \in 0 .. MaxSteps}

\* (trigger, user_id, invoice_id) as a caller passes them; the second call
\* leaves both ids at their default
Calls == {[trigger |-> "invoice_uploaded", user_id |-> Some(1), invoice_id |-> Some(2)],
          [trigger |-> "manual", user_id |-> None, invoice_id |-> None]}

\* what str(e) can be for an exception raised inside step.run
StepErrors == {<<"step failed">>}

\* ---------------------------------------------------------------- helpers
Range(s) == {s[j] : j \in DOMAIN s}

Last(s) == s[Len(s)]

EmptyDict == [k \in {} |-> 0]

\* d[k] = v on a dict
DictSet(d, k, v) == [x \in DOMAIN d \cup {k} |-> IF x = k THEN v ELSE d[x]]

\* dict.setdefault for every entry of updates: present keys keep their value
DictUpdate_keep(d, updates) ==
    [x \in DOMAIN d \cup DOMAIN updates |->
        IF x \in DOMAIN d THEN d[x] ELSE updates[x]]

\* the context is replaced by the step's output
DictUpdate_replace(d, updates) == updates

\* dict.update(updates)
DictUpdate(d, updates) ==
    [x \in DOMAIN d \cup DOMAIN updates |->
        IF x \in DOMAIN updates THEN updates[x] ELSE d[x]]

\* {k: context[k] for k in allowed_keys if k in context}, built entry by entry
RECURSIVE FilterFrom(_, _, _, _)
FilterFrom(context, allowed_keys, j, acc) ==
    IF j > Len(allowed_keys) THEN acc
    ELSE FilterFrom(context, allowed_keys, j + 1,
                    IF allowed_keys[j] \in DOMAIN context
                    THEN DictSet(acc, allowed_keys[j], context[allowed_keys[j]])
                    ELSE acc)

\* the whole context is handed over
_filter_context_all(context, allowed_keys) == context

_filter_context(context, allowed_keys) ==
    FilterFrom(context, allowed_keys, 1, EmptyDict)

\* the declared list is logged, present or not
InputKeys_declared(context, allowed_inputs) == allowed_inputs

\* [k for k in step.allowed_inputs if k in context]
InputKeys(context, allowed_inputs) ==
    SelectSeq(allowed_inputs, LAMBDA k : k \in DOMAIN context)

\* rejects only when no returned key is allowed
_validate_output_any(updates, allowed_outputs) ==
    IF DOMAIN updates \cap Range(allowed_outputs) # {} THEN {}
    ELSE {k \in DOMAIN updates : k \notin Range(allowed_outputs)}

\* never rejects
_validate_output_off(updates, allowed_outputs) == {}

\* The keys on which _validate_output can raise: it raises on the first
\* key of updates (in dict order) that is not in allowed_outputs, and
\* returns normally iff there is none.
_validate_output(updates, allowed_outputs) ==
    {k \in DOMAIN updates : k \notin Range(allowed_outputs)}

\* str(e) of the ValueError of _validate_output
ValueError(k) == <<"Step produced disallowed output key: ", k>>

\* the row AuditService.log_action adds (json.dumps keeps the structure of
\* metadata; a falsy metadata is stored as None)
log_action(action, uid, iid, metadata) ==
    [user_id |-> uid, invoice_id |-> iid, action |-> action,
     raw_ocr_output |-> None, ai_prompt |-> None, ai_response |-> None,
     metadata |-> IF metadata = EmptyDict THEN None ELSE Some(metadata),
     ip_address |-> None, user_agent |-> None]

\* ------------------------------------------------------------------ state
VARIABLES
    trigger,      \* run -> trigger argument
    user_id,      \* run -> user_id argument
    invoice_id,   \* run -> invoice_id argument
    steps,        \* run -> steps argument
    context,      \* run -> the context dict (the caller's object, mutated in place)
    pc,           \* run -> "loop" | "call" | "log_ok" | "log_fail" | "done" | "raised"
    idx,          \* run -> position of the for loop in steps (1-based)
    input_keys,   \* run -> local input_keys
    step_input,   \* run -> local step_input, the dict handed to step.run
    updates,      \* run -> local updates, what step.run last returned
    error,        \* run -> str(e) of the exception in flight, or None
    result,       \* run -> value returned by run_workflow, or None
    audit_log,    \* the audit_logs table, in insertion order
    context0,     \* history: run -> context as passed in
    pre_context,  \* history: run -> context when the current step began
    invoked,      \* history: run -> indexes of the steps whose run was called
    returned,     \* history: run -> what the current step's run returned, or None
    outputs       \* history: run -> the dicts merged into context, in order

\* arguments and results of the scoring functions (confidences in hundredths)
VARIABLES
    ai_confidence,     \* ai_confidence argument of calculate_final_confidence
    account_number,    \* account_number argument: None or a string
    vat_code,          \* vat_code argument: None or a string
    final_confidence,  \* value calculate_final_confidence returned, or None
    risk_level,        \* value check_risk_rules returned, or None
    validation         \* dict validate_suggestion returned, or None

scoring == <<ai_confidence, account_number, vat_code, final_confidence,
             risk_level, validation>>

\* the rows the step bodies work on, and the frame of the step body running
VARIABLES
    invoice_status,    \* invoices.status of invoice 1, or None without the row
    suggestions,       \* the suggestions table, in insertion order
    frame              \* the step function last entered: its call, position
                       \* and locals

\* the HTTP request being served
VARIABLES
    request            \* its operation, position, locals and response

\* history of the processing of invoice 1
VARIABLES
    status_log,        \* the values committed to invoices.status, in order
    inline             \* what process_invoice left behind, or None: see Rerun

\* the status column and its history
status == <<invoice_status, status_log>>

world == <<invoice_status, suggestions, frame, request, status_log, inline>>

\* what no statement of run_workflow assigns
outside == <<scoring, world>>

vars == <<trigger, user_id, invoice_id, steps, context, pc, idx, input_keys,
          step_input, updates, error, result, audit_log, context0,
          pre_context, invoked, returned, outputs, outside>>

args == <<trigger, user_id, invoice_id, steps, context0, outside>>

\* no step function has been entered
NoFrame ==
    [call |-> 0, at |-> "", ret |-> EmptyDict, error |-> <<>>, content |-> None]

\* no request has been received
NoRequest ==
    [op |-> "", at |-> "", mime_type |-> "", ocr_text |-> None,
     ai_result |-> None, final_confidence |-> None, risk_level |-> None,
     error |-> None, status_code |-> 0, body |-> <<>>]

\* an empty database and no step function entered
NoWorld ==
    /\ invoice_status = None
    /\ suggestions = <<>>
    /\ frame = NoFrame
    /\ request = NoRequest
    /\ status_log = <<>>
    /\ inline = None

\* invoice.status = st; db.commit()
SetStatus(st) ==
    /\ invoice_status' = Some(st)
    /\ status_log' = Append(status_log, st)

\* no scoring call is in progress
NoScoring ==
    /\ ai_confidence = 0
    /\ account_number = None
    /\ vat_code = None
    /\ final_confidence = None
    /\ risk_level = None
    /\ validation = None

\* run_workflow(trigger, context, steps, db, user_id, invoice_id) is entered
Init ==
    /\ \E c \in Calls :
        /\ trigger = [r \in Runs |-> c.trigger]
        /\ user_id = [r \in Runs |-> c.user_id]
        /\ invoice_id = [r \in Runs |-> c.invoice_id]
    /\ steps \in [Runs -> StepLists]
    /\ context \in [Runs -> Dicts]
    /\ context0 = context
    /\ pre_context = context
    /\ pc = [r \in Runs |-> "loop"]
    /\ idx = [r \in Runs |-> 1]
    /\ input_keys = [r \in Runs |-> <<>>]
    /\ step_input = [r \in Runs |-> EmptyDict]
    /\ updates = [r \in Runs |-> EmptyDict]
    /\ error = [r \in Runs |-> None]
    /\ result = [r \in Runs |-> None]
    /\ invoked = [r \in Runs |-> <<>>]
    /\ returned = [r \in Runs |-> None]
    /\ outputs = [r \in Runs |-> <<>>]
    /\ audit_log = <<>>
    /\ NoScoring
    /\ NoWorld

\* the step the for loop is at
step(r) == steps[r][idx[r]]

\* the view is cut from a dict that still holds what run 1 left in it
BeginStep_carry(r) ==
    /\ pc[r] = "loop"
    /\ idx[r] <= Len(steps[r])
    /\ input_keys' = [input_keys EXCEPT ![r] =
                        InputKeys(context[r], step(r).allowed_inputs)]
    /\ step_input' = [step_input EXCEPT ![r] =
                        _filter_context(DictUpdate(context[1], context[r]),
                                        step(r).allowed_inputs)]
    /\ pre_context' = [pre_context EXCEPT ![r] = context[r]]
    /\ invoked' = [invoked EXCEPT ![r] = Append(@, idx[r])]
    /\ returned' = [returned EXCEPT ![r] = None]
    /\ pc' = [pc EXCEPT ![r] = "call"]
    /\ UNCHANGED <<args, context, idx, updates, error, result, audit_log,
                   outputs>>

\* for step in steps: input_keys = ... ; step_input = _filter_context(...)
\* from the initial context instead of the current one
BeginStep_initial(r) ==
    /\ pc[r] = "loop"
    /\ idx[r] <= Len(steps[r])
    /\ input_keys' = [input_keys EXCEPT ![r] =
                        InputKeys(context[r], step(r).allowed_inputs)]
    /\ step_input' = [step_input EXCEPT ![r] =
                        _filter_context(context0[r], step(r).allowed_inputs)]
    /\ pre_context' = [pre_context EXCEPT ![r] = context[r]]
    /\ invoked' = [invoked EXCEPT ![r] = Append(@, idx[r])]
    /\ returned' = [returned EXCEPT ![r] = None]
    /\ pc' = [pc EXCEPT ![r] = "call"]
    /\ UNCHANGED <<args, context, idx, updates, error, result, audit_log,
                   outputs>>

\* for step in steps: input_keys = ...; step_input = _filter_context(...);
\* step.run(step_input, db) is entered
BeginStep(r) ==
    /\ pc[r] = "loop"
    /\ idx[r] <= Len(steps[r])
    /\ input_keys' = [input_keys EXCEPT ![r] =
                        InputKeys(context[r], step(r).allowed_inputs)]
    /\ step_input' = [step_input EXCEPT ![r] =
                        _filter_context(context[r], step(r).allowed_inputs)]
    /\ pre_context' = [pre_context EXCEPT ![r] = context[r]]
    /\ invoked' = [invoked EXCEPT ![r] = Append(@, idx[r])]
    /\ returned' = [returned EXCEPT ![r] = None]
    /\ pc' = [pc EXCEPT ![r] = "call"]
    /\ UNCHANGED <<args, context, idx, updates, error, result, audit_log,
                   outputs>>

\* every run merges into the dict of run 1
StepReturnsWith_shared(r, out) ==
    /\ pc[r] = "call"
    /\ updates' = [updates EXCEPT ![r] = out]
    /\ returned' = [returned EXCEPT ![r] = Some(out)]
    /\ LET bad == _validate_output(out, step(r).allowed_outputs) IN
        IF bad = {}
        THEN /\ context' = [context EXCEPT ![1] = DictUpdate(@, out)]
             /\ outputs' = [outputs EXCEPT ![r] = Append(@, out)]
             /\ pc' = [pc EXCEPT ![r] = "log_ok"]
             /\ UNCHANGED error
        ELSE /\ \E k \in bad :
                    error' = [error EXCEPT ![r] = Some(ValueError(k))]
             /\ pc' = [pc EXCEPT ![r] = "log_fail"]
             /\ UNCHANGED <<context, outputs>>
    /\ UNCHANGED <<args, idx, input_keys, step_input, result, audit_log,
                   pre_context, invoked>>

\* context.update(updates) is reached before _validate_output
StepReturnsWith_early(r, out) ==
    /\ pc[r] = "call"
    /\ updates' = [updates EXCEPT ![r] = out]
    /\ returned' = [returned EXCEPT ![r] = Some(out)]
    /\ context' = [context EXCEPT ![r] = DictUpdate(@, out)]
    /\ LET bad == _validate_output(out, step(r).allowed_outputs) IN
        IF bad = {}
        THEN /\ outputs' = [outputs EXCEPT ![r] = Append(@, out)]
             /\ pc' = [pc EXCEPT ![r] = "log_ok"]
             /\ UNCHANGED error
        ELSE /\ \E k \in bad :
                    error' = [error EXCEPT ![r] = Some(ValueError(k))]
             /\ pc' = [pc EXCEPT ![r] = "log_fail"]
             /\ UNCHANGED outputs
    /\ UNCHANGED <<args, idx, input_keys, step_input, result, audit_log,
                   pre_context, invoked>>

\* updates = step.run(step_input, db) returns out;
\* _validate_output(updates, step.allowed_outputs); context.update(updates)
StepReturnsWith(r, out) ==
    /\ pc[r] = "call"
    /\ updates' = [updates EXCEPT ![r] = out]
    /\ returned' = [returned EXCEPT ![r] = Some(out)]
    /\ LET bad == _validate_output(out, step(r).allowed_outputs) IN
        IF bad = {}
        THEN /\ context' = [context EXCEPT ![r] = DictUpdate(@, out)]
             /\ outputs' = [outputs EXCEPT ![r] = Append(@, out)]
             /\ pc' = [pc EXCEPT ![r] = "log_ok"]
             /\ UNCHANGED error
        ELSE /\ \E k \in bad :
                    error' = [error EXCEPT ![r] = Some(ValueError(k))]
             /\ pc' = [pc EXCEPT ![r] = "log_fail"]
             /\ UNCHANGED <<context, outputs>>
    /\ UNCHANGED <<args, idx, input_keys, step_input, result, audit_log,
                   pre_context, invoked>>

\* the foreign step.run returns some dict over Keys
StepReturns(r) == \E out \in Dicts : StepReturnsWith(r, out)

\* step.run raises an Exception whose str() is msg
StepRaisesWith(r, msg) ==
    /\ pc[r] = "call"
    /\ error' = [error EXCEPT ![r] = Some(msg)]
    /\ pc' = [pc EXCEPT ![r] = "log_fail"]
    /\ UNCHANGED <<args, context, idx, input_keys, step_input, updates,
                   result, audit_log, pre_context, invoked, returned, outputs>>

\* the foreign step.run raises an Exception
StepRaises(r) == \E msg \in StepErrors : StepRaisesWith(r, msg)

\* metadata of the success event
SuccessMetadata(r) ==
    [trigger |-> trigger[r], step |-> step(r).name,
     input_keys |-> input_keys[r], output_keys |-> DOMAIN updates[r],
     success |-> TRUE]

\* the failure event lists the keys the step returned
FailureMetadata_keys(r) ==
    [trigger |-> trigger[r], step |-> step(r).name,
     input_keys |-> input_keys[r], output_keys |-> DOMAIN updates[r],
     success |-> FALSE, error |-> The(error[r])]

\* metadata of the failure event
FailureMetadata(r) ==
    [trigger |-> trigger[r], step |-> step(r).name,
     input_keys |-> input_keys[r], output_keys |-> {},
     success |-> FALSE, error |-> The(error[r])]

\* the success event is not written
LogSuccess_silent(r) ==
    /\ pc[r] = "log_ok"
    /\ idx' = [idx EXCEPT ![r] = @ + 1]
    /\ pc' = [pc EXCEPT ![r] = "loop"]
    /\ UNCHANGED <<args, context, input_keys, step_input, updates, error,
                   result, audit_log, pre_context, invoked, returned, outputs>>

\* audit_service.log_action(..., success=True) in the try block; next step
LogSuccess(r) ==
    /\ pc[r] = "log_ok"
    /\ audit_log' = Append(audit_log,
            log_action("workflow_step", user_id[r], invoice_id[r],
                       SuccessMetadata(r)))
    /\ idx' = [idx EXCEPT ![r] = @ + 1]
    /\ pc' = [pc EXCEPT ![r] = "loop"]
    /\ UNCHANGED <<args, context, input_keys, step_input, updates, error,
                   result, pre_context, invoked, returned, outputs>>

\* the exception is logged and swallowed: the loop goes on
LogFailure_swallow(r) ==
    /\ pc[r] = "log_fail"
    /\ audit_log' = Append(audit_log,
            log_action("workflow_step", user_id[r], invoice_id[r],
                       FailureMetadata(r)))
    /\ idx' = [idx EXCEPT ![r] = @ + 1]
    /\ pc' = [pc EXCEPT ![r] = "loop"]
    /\ UNCHANGED <<args, context, input_keys, step_input, updates,
                   error, result, pre_context, invoked, returned, outputs>>

\* except Exception as e: audit_service.log_action(..., success=False); raise
LogFailure(r) ==
    /\ pc[r] = "log_fail"
    /\ audit_log' = Append(audit_log,
            log_action("workflow_step", user_id[r], invoice_id[r],
                       FailureMetadata(r)))
    /\ pc' = [pc EXCEPT ![r] = "raised"]
    /\ UNCHANGED <<args, context, idx, input_keys, step_input, updates,
                   error, result, pre_context, invoked, returned, outputs>>

\* the function falls off its end: nothing is returned
Return_nothing(r) ==
    /\ pc[r] = "loop"
    /\ idx[r] > Len(steps[r])
    /\ pc' = [pc EXCEPT ![r] = "done"]
    /\ UNCHANGED <<args, context, idx, input_keys, step_input, updates,
                   error, result, audit_log, pre_context, invoked, returned,
                   outputs>>

\* the loop is exhausted: return context
Return(r) ==
    /\ pc[r] = "loop"
    /\ idx[r] > Len(steps[r])
    /\ result' = [result EXCEPT ![r] = Some(context[r])]
    /\ pc' = [pc EXCEPT ![r] = "done"]
    /\ UNCHANGED <<args, context, idx, input_keys, step_input, updates,
                   error, audit_log, pre_context, invoked, returned, outputs>>

Next ==
    \E r \in Runs :
        \/ BeginStep(r)
        \/ StepReturns(r)
        \/ StepRaises(r)
        \/ LogSuccess(r)
        \/ LogFailure(r)
        \/ Return(r)

Spec == Init /\ [][Next]_vars

TypeOK ==
    /\ pc \in [Runs -> {"loop", "call", "log_ok", "log_fail", "done", "raised"}]
    /\ \A r \in Runs : DOMAIN context[r] \subseteq Keys

\* ----------------------------------------------------------------- claims
\* the step whose run was called last
CurStep(r) == steps[r][Last(invoked[r])]

\* the rows of the trail with success=False
Failures == SelectSeq(audit_log, LAMBDA e : ~The(e.metadata).success)

\* the value the last dict of outs that holds k gives it
LatestWrite(outs, k) ==
    outs[CHOOSE j \in DOMAIN outs :
            /\ k \in DOMAIN outs[j]
            /\ \A i \in DOMAIN outs : k \in DOMAIN outs[i] => i <= j][k]

\* C1: a step whose returned outputs hold a key outside its allowed_outputs
\* is failed, and the context is what it was before the step ran: no
\* returned key, allowed or not, is written.
C1_AtomicMerge ==
    \A r \in Runs :
        (/\ returned[r] # None
         /\ ~(DOMAIN The(returned[r]) \subseteq Range(CurStep(r).allowed_outputs)))
        => /\ pc[r] \in {"log_fail", "raised"}
           /\ error[r] # None
           /\ context[r] = pre_context[r]

\* a run failed on a step that returned an allowed key with a new value
\* together with a disallowed key
C1_Witness ==
    \E r \in Runs :
        /\ pc[r] = "raised"
        /\ returned[r] # None
        /\ \E k \in DOMAIN The(returned[r]) :
            /\ k \in Range(CurStep(r).allowed_outputs)
            /\ k \in DOMAIN context[r]
            /\ The(returned[r])[k] # context[r][k]
        /\ \E k \in DOMAIN The(returned[r]) :
            k \notin Range(CurStep(r).allowed_outputs)

\* C2: the dict handed to a step has exactly the keys of the context that
\* are in the step's allowed_inputs, with the context's values; allowed keys
\* the context lacks are left out.  When a step is called the same holds of
\* _filter_context on the context for every key list of KeyLists.
C2_FilterContext ==
    \A r \in Runs :
        /\ invoked[r] # <<>> =>
            LET A == Range(CurStep(r).allowed_inputs)
                C == pre_context[r]
                V == step_input[r]
            IN  /\ DOMAIN V = DOMAIN C \cap A
                /\ \A k \in DOMAIN V : V[k] = C[k]
        /\ pc[r] = "call" => \A A \in KeyLists :
            LET V == _filter_context(context[r], A)
            IN  /\ DOMAIN V = DOMAIN context[r] \cap Range(A)
                /\ \A k \in DOMAIN V : V[k] = context[r][k]

\* a step is running on a non-empty view although one of its allowed
\* inputs is absent from the context
C2_Witness ==
    \E r \in Runs :
        /\ pc[r] = "call"
        /\ step_input[r] # EmptyDict
        /\ \E k \in Range(CurStep(r).allowed_inputs) : k \notin DOMAIN context[r]

\* C3: the steps invoked are a prefix of the step list, in order and once
\* each; the prefix ends at the first step with an exception in flight, and
\* a run that raised returned nothing.
C3_FailFast ==
    \A r \in Runs :
        /\ invoked[r] = [j \in 1 .. Len(invoked[r]) |-> j]
        /\ Len(invoked[r]) <= Len(steps[r])
        /\ error[r] # None =>
            /\ pc[r] \in {"log_fail", "raised"}
            /\ Len(invoked[r]) = idx[r]
        /\ pc[r] = "raised" => error[r] # None /\ result[r] = None
        /\ pc[r] = "done" => error[r] = None /\ Len(invoked[r]) = Len(steps[r])

\* the first of two steps raised and the run ended with one invocation
C3_Witness ==
    \E r \in Runs :
        /\ pc[r] = "raised"
        /\ returned[r] = None
        /\ Len(steps[r]) = 2
        /\ invoked[r] = <<1>>

\* C4: when run_workflow has raised, the last row of the trail is the one
\* failure event of the failing step (success=False, output_keys=[], the
\* error message), no later step has a row, and before the failure is
\* logged nothing has been raised to the caller.
C4_FailureAudited ==
    \A r \in Runs :
        /\ pc[r] # "raised" => Failures = <<>>
        /\ pc[r] = "raised" =>
            /\ Len(Failures) = 1
            /\ Len(audit_log) = idx[r]
            /\ LET e == Last(audit_log)
                   m == The(e.metadata)
               IN  /\ e.action = "workflow_step"
                   /\ m.success = FALSE
                   /\ m.output_keys = {}
                   /\ m.error = The(error[r])
                   /\ m.step = steps[r][idx[r]].name

\* the second step returned a disallowed key after the first succeeded
C4_Witness ==
    \E r \in Runs :
        /\ pc[r] = "raised"
        /\ returned[r] # None
        /\ Len(audit_log) = 2
        /\ The(audit_log[1].metadata).success
        /\ ~The(audit_log[2].metadata).success

\* C5: the trail holds one workflow_step row per step invoked, in the
\* order of invocation; while a step is in progress its row is the one
\* still missing.
C5_OneEventPerInvocation ==
    \A r \in Runs :
        /\ Len(audit_log) =
            IF pc[r] \in {"call", "log_ok", "log_fail"}
            THEN Len(invoked[r]) - 1 ELSE Len(invoked[r])
        /\ \A k \in 1 .. Len(audit_log) :
            /\ audit_log[k].action = "workflow_step"
            /\ The(audit_log[k].metadata).step = steps[r][invoked[r][k]].name

\* a run of two differently named steps completed
C5_Witness ==
    \E r \in Runs :
        /\ pc[r] = "done"
        /\ Len(invoked[r]) = 2
        /\ steps[r][1].name # steps[r][2].name

\* C6: with an empty step list run_workflow returns the context it was
\* given, keys and values unchanged, and the trail stays empty.
C6_EmptyStepList ==
    \A r \in Runs :
        steps[r] = <<>> =>
            /\ pc[r] \in {"loop", "done"}
            /\ audit_log = <<>>
            /\ context[r] = context0[r]
            /\ pc[r] = "done" => result[r] = Some(context0[r])

\* a run over no steps returned a non-empty context
C6_Witness ==
    \E r \in Runs :
        /\ steps[r] = <<>>
        /\ pc[r] = "done"
        /\ context0[r] # EmptyDict

\* C7: the row written for a step carries the run's trigger and ids, the
\* step's name, as input_keys the allowed inputs present in the context
\* before the step ran (on success and on failure), and on success
\* success=True with the returned keys as output_keys.
C7_EventContent ==
    \A r \in Runs :
        (pc[r] \in {"loop", "done", "raised"} /\ invoked[r] # <<>>) =>
            LET e == Last(audit_log)
                m == The(e.metadata)
            IN  /\ e.user_id = user_id[r]
                /\ e.invoice_id = invoice_id[r]
                /\ m.trigger = trigger[r]
                /\ m.step = CurStep(r).name
                /\ Range(m.input_keys) =
                    Range(CurStep(r).allowed_inputs) \cap DOMAIN pre_context[r]
                /\ m.success = (pc[r] # "raised")
                /\ m.success => /\ returned[r] # None
                                /\ m.output_keys = DOMAIN The(returned[r])

\* a success row with output keys whose input_keys lack an allowed input
C7_Witness ==
    \E r \in Runs :
        /\ pc[r] = "loop"
        /\ audit_log # <<>>
        /\ The(Last(audit_log).metadata).success
        /\ The(Last(audit_log).metadata).output_keys # {}
        /\ Range(The(Last(audit_log).metadata).input_keys)
            # Range(CurStep(r).allowed_inputs)

\* C8: when a step is called, every earlier step has completed and has its
\* success row, and a key an earlier step produced is in the view exactly
\* when the step's allowed_inputs name it, with the value written last.
C8_SequentialDataflow ==
    \A r \in Runs :
        pc[r] = "call" =>
            /\ Len(outputs[r]) = Len(invoked[r]) - 1
            /\ Len(audit_log) = Len(invoked[r]) - 1
            /\ \A j \in 1 .. Len(audit_log) : The(audit_log[j].metadata).success
            /\ \A k \in UNION {DOMAIN outputs[r][j] : j \in DOMAIN outputs[r]} :
                /\ k \in DOMAIN step_input[r]
                    <=> k \in Range(CurStep(r).allowed_inputs)
                /\ k \in DOMAIN step_input[r]
                    => step_input[r][k] = LatestWrite(outputs[r], k)

\* the second step sees the value the first step wrote over the initial one
C8_Witness ==
    \E r \in Runs :
        /\ pc[r] = "call"
        /\ idx[r] = 2
        /\ \E k \in DOMAIN step_input[r] \cap DOMAIN context0[r] :
            /\ k \in DOMAIN outputs[r][1]
            /\ step_input[r][k] # context0[r][k]

\* the steps of run r that have returned and passed validation
Completed(r) ==
    {j \in 1 .. Len(steps[r]) : j < idx[r] \/ (j = idx[r] /\ pc[r] = "log_ok")}

\* C9: in every state of a run, a key of the context that is new or whose
\* value differs from the initial one is in the allowed_outputs of a step
\* that has completed; no initial key is lost.
C9_WriteIsolation ==
    \A r \in Runs :
        /\ DOMAIN context0[r] \subseteq DOMAIN context[r]
        /\ \A k \in DOMAIN context[r] :
            (k \notin DOMAIN context0[r] \/ context[r][k] # context0[r][k])
            => \E j \in Completed(r) : k \in Range(steps[r][j].allowed_outputs)

\* the context holds a new key and a changed initial value
C9_Witness ==
    \E r \in Runs :
        /\ \E k \in DOMAIN context[r] : k \notin DOMAIN context0[r]
        /\ \E k \in DOMAIN context0[r] : context[r][k] # context0[r][k]

\* C10: a step that returns only keys of its allowed_outputs succeeds, and
\* the context is then the previous context with the returned keys set to
\* the returned values and every other key as it was.
C10_MergeOnSuccess ==
    \A r \in Runs :
        (/\ returned[r] # None
         /\ DOMAIN The(returned[r]) \subseteq Range(CurStep(r).allowed_outputs))
        => LET ret == The(returned[r]) IN
            /\ pc[r] \in {"log_ok", "loop", "done"}
            /\ error[r] = None
            /\ pc[r] # "log_ok" => The(Last(audit_log).metadata).success
            /\ DOMAIN context[r] = DOMAIN pre_context[r] \cup DOMAIN ret
            /\ \A k \in DOMAIN ret : context[r][k] = ret[k]
            /\ \A k \in DOMAIN pre_context[r] \ DOMAIN ret :
                context[r][k] = pre_context[r][k]

\* a step overwrote one key with a new value and left another key alone
C10_Witness ==
    \E r \in Runs :
        /\ pc[r] = "log_ok"
        /\ \E k \in DOMAIN The(returned[r]) \cap DOMAIN pre_context[r] :
            The(returned[r])[k] # pre_context[r][k]
        /\ DOMAIN pre_context[r] \ DOMAIN The(returned[r]) # {}

\* c0 with the dicts of outs merged into it in order
MergedContext(c0, outs) ==
    LET written == UNION {DOMAIN outs[j] : j \in DOMAIN outs} IN
    [k \in DOMAIN c0 \cup written |->
        IF k \in written THEN LatestWrite(outs, k) ELSE c0[k]]

\* C11: when a run fails at step i (an exception is in flight or has been
\* raised to the caller), the context is the initial context with the
\* outputs of the i-1 earlier steps merged in order, those outputs being the
\* ones their success rows list, and nothing the failing step returned has
\* been written.
C11_AbortedContext ==
    \A r \in Runs :
        pc[r] \in {"log_fail", "raised"} =>
            /\ Len(outputs[r]) = idx[r] - 1
            /\ \A j \in 1 .. idx[r] - 1 :
                The(audit_log[j].metadata).output_keys = DOMAIN outputs[r][j]
            /\ context[r] = MergedContext(context0[r], outputs[r])
            /\ context[r] = pre_context[r]

\* the second step failed after returning a new value for an allowed key,
\* the first step having changed an initial value
C11_Witness ==
    \E r \in Runs :
        /\ pc[r] = "raised"
        /\ idx[r] = 2
        /\ \E k \in DOMAIN outputs[r][1] \cap DOMAIN context0[r] :
            outputs[r][1][k] # context0[r][k]
        /\ returned[r] # None
        /\ \E k \in DOMAIN The(returned[r]) \cap DOMAIN context[r] :
            /\ k \in Range(CurStep(r).allowed_outputs)
            /\ The(returned[r])[k] # context[r][k]

\* C18: the row the engine writes for a step records the step's
\* is_external flag, so rows of external steps can be told from rows of
\* local ones.
C18_ExternalityTagged ==
    \A r \in Runs :
        \A k \in DOMAIN audit_log :
            LET m == The(audit_log[k].metadata) IN
            /\ "is_external" \in DOMAIN m
            /\ m.is_external = steps[r][invoked[r][k]].is_external

\* ------------------------------------------- two runs of deterministic steps
\* the runs of the two-run specifications
Both == {1, 2}

Terminated(r) == pc[r] \in {"done", "raised"}

\* what a deterministic step.run does with its view ctx: Some(dict) when it
\* returns, None when it raises.  "derive" reads ctx["a"] (KeyError when
\* absent), "echo" returns its view, "flip" reads ctx.get("b", 0).
Run(fn, ctx) ==
    CASE fn = "derive" ->
            IF "a" \in DOMAIN ctx
            THEN Some([k \in {"b"} |-> 1 - ctx["a"]]) ELSE None
      [] fn = "echo" -> Some(ctx)
      [] fn = "flip" ->
            Some([k \in {"a"} |-> IF "b" \in DOMAIN ctx THEN ctx["b"] ELSE 0])

\* a StepDef together with its run callable
WithRun(s, fn) ==
    [name |-> s.name, allowed_inputs |-> s.allowed_inputs,
     allowed_outputs |-> s.allowed_outputs, is_external |-> s.is_external,
     run |-> fn]

DetStepDefs ==
    {WithRun(StepDef("local", <<"a">>, <<"b">>, FALSE), "derive"),
     WithRun(StepDef("remote", <<"b", "a">>, <<"b">>, TRUE), "echo"),
     WithRun(StepDef("flip", <<"b">>, <<"a", "b">>, FALSE), "flip")}

\* pipelines of differently named steps
DetLists ==
    {l \in UNION {[1 .. n -> DetStepDefs] : n \in 0 .. MaxSteps} :
        \A i, j \in DOMAIN l : i # j => l[i].name # l[j].name}

\* step.run is the deterministic callable of the step and returns
DetReturns(r) ==
    /\ pc[r] = "call"
    /\ Run(step(r).run, step_input[r]) # None
    /\ StepReturnsWith(r, The(Run(step(r).run, step_input[r])))

\* step.run is the deterministic callable of the step and raises
DetRaises(r) ==
    /\ pc[r] = "call"
    /\ Run(step(r).run, step_input[r]) = None
    /\ StepRaises(r)

DetNext(r) ==
    \/ BeginStep(r)
    \/ DetReturns(r)
    \/ DetRaises(r)
    \/ LogSuccess(r)
    \/ LogFailure(r)
    \/ Return(r)

\* the locals of both runs on entry
InitLocals ==
    /\ context0 = context
    /\ pre_context = context
    /\ pc = [r \in Both |-> "loop"]
    /\ idx = [r \in Both |-> 1]
    /\ input_keys = [r \in Both |-> <<>>]
    /\ step_input = [r \in Both |-> EmptyDict]
    /\ updates = [r \in Both |-> EmptyDict]
    /\ error = [r \in Both |-> None]
    /\ result = [r \in Both |-> None]
    /\ invoked = [r \in Both |-> <<>>]
    /\ returned = [r \in Both |-> None]
    /\ outputs = [r \in Both |-> <<>>]
    /\ audit_log = <<>>
    /\ NoScoring
    /\ NoWorld

\* run_workflow is called twice with equal arguments, each call on a fresh
\* dict of the same content
InitRepeat ==
    /\ \E c \in Calls :
        /\ trigger = [r \in Both |-> c.trigger]
        /\ user_id = [r \in Both |-> c.user_id]
        /\ invoice_id = [r \in Both |-> c.invoice_id]
    /\ \E l \in DetLists : steps = [r \in Both |-> l]
    /\ \E c0 \in Dicts : context = [r \in Both |-> c0]
    /\ InitLocals

\* the second call is made when the first has returned or raised
NextRepeat ==
    \/ DetNext(1)
    \/ Terminated(1) /\ DetNext(2)

SpecRepeat == InitRepeat /\ [][NextRepeat]_vars

InitConcurrent ==
    /\ trigger = [r \in Both |-> "invoice_uploaded"]
    /\ user_id = [r \in Both |-> Some(1)]
    /\ invoice_id = [r \in Both |-> Some(r)]
    /\ steps \in [Both -> DetLists]
    /\ context \in [Both -> Dicts]
    /\ InitLocals

NextConcurrent == \E r \in Both : DetNext(r)

SpecConcurrent == InitConcurrent /\ [][NextConcurrent]_vars

\* the rows of the trail written for the document of run r
RunEvents(r) == SelectSeq(audit_log, LAMBDA e : e.invoice_id = invoice_id[r])

\* run_workflow executed from step j on, alone and to its end: the final
\* context, the rows it appends to events, and whether it raised
RECURSIVE RunAlone(_, _, _, _, _)
RunAlone(r, ctx, sts, j, events) ==
    IF j > Len(sts)
    THEN [context |-> ctx, events |-> events, raised |-> FALSE]
    ELSE LET s == sts[j]
             keys == InputKeys(ctx, s.allowed_inputs)
             out == Run(s.run, _filter_context(ctx, s.allowed_inputs))
             bad == IF out = None THEN {}
                    ELSE _validate_output(The(out), s.allowed_outputs)
             row(m) == log_action("workflow_step", user_id[r], invoice_id[r], m)
         IN  IF out # None /\ bad = {}
             THEN RunAlone(r, DictUpdate(ctx, The(out)), sts, j + 1,
                    Append(events,
                        row([trigger |-> trigger[r], step |-> s.name,
                             input_keys |-> keys,
                             output_keys |-> DOMAIN The(out),
                             success |-> TRUE])))
             ELSE [context |-> ctx, raised |-> TRUE,
                   events |-> Append(events,
                        row([trigger |-> trigger[r], step |-> s.name,
                             input_keys |-> keys, output_keys |-> {},
                             success |-> FALSE,
                             error |-> IF out = None
                                       THEN CHOOSE m \in StepErrors : TRUE
                                       ELSE ValueError(CHOOSE k \in bad : TRUE)]))]

\* C13: in every interleaving of two runs that own distinct contexts and
\* share the trail, a run that has ended holds the final context, and has
\* written as its own rows of the trail the events, that it produces when
\* executed alone on its arguments.
C13_InterleavedAsAlone ==
    \A r \in Both :
        Terminated(r) =>
            LET alone == RunAlone(r, context0[r], steps[r], 1, <<>>) IN
            /\ context[r] = alone.context
            /\ RunEvents(r) = alone.events
            /\ (pc[r] = "raised") = alone.raised
            /\ pc[r] = "done" => result[r] = Some(alone.context)

\* both runs ended with changed contexts and their rows alternate in the trail
C13_Witness ==
    /\ Terminated(1)
    /\ Terminated(2)
    /\ context[1] # context0[1]
    /\ context[2] # context0[2]
    /\ Len(audit_log) = 4
    /\ audit_log[1].invoice_id = audit_log[3].invoice_id
    /\ audit_log[2].invoice_id = audit_log[4].invoice_id
    /\ audit_log[1].invoice_id # audit_log[2].invoice_id

\* ------------------------------------------------- validation and scoring
\* Python str values are sequences of one-character strings; a confidence
\* is held in hundredths, and in quarters of a hundredth while it is scaled.
MaxConfidence == 400   \* largest AI confidence tried, in hundredths

Digits == <<"0", "1", "2", "3", "4", "5", "6", "7", "8", "9">>

\* the characters str.strip() removes (of those the inputs are made of)
Whitespace == {" "}

\* str.isdigit()
isdigit(s) == s # <<>> /\ \A i \in DOMAIN s : s[i] \in Range(Digits)

\* str.strip()
strip(s) ==
    LET solid == {i \in DOMAIN s : s[i] \notin Whitespace} IN
    IF solid = {} THEN <<>>
    ELSE SubSeq(s, CHOOSE i \in solid : \A j \in solid : i <= j,
                   CHOOSE i \in solid : \A j \in solid : j <= i)

\* int(s) for a string of decimal digits
RECURSIVE IntOf(_)
IntOf(s) ==
    IF s = <<>> THEN 0
    ELSE 10 * IntOf(SubSeq(s, 1, Len(s) - 1))
         + (CHOOSE d \in 0 .. 9 : Digits[d + 1] = s[Len(s)])

VALID_VAT_CODES == << <<"0">>, <<"1">>, <<"2">>, <<"3">>, <<"5">>, <<"6">> >>

\* (start, end) of each key of VALID_ACCOUNT_RANGES
VALID_ACCOUNT_RANGES ==
    {<<1000, 1999>>, <<2000, 2999>>, <<3000, 3999>>, <<4000, 4999>>,
     <<5000, 5999>>, <<6000, 6999>>, <<7000, 7999>>, <<8000, 8999>>}

\* the bool of the pair validate_account_number returns
validate_account_number(acc) ==
    IF acc = None \/ The(acc) = <<>> THEN FALSE
    ELSE LET stripped == strip(The(acc)) IN
         /\ isdigit(stripped)
         /\ Len(stripped) = 4
         /\ \E rg \in VALID_ACCOUNT_RANGES :
                rg[1] <= IntOf(stripped) /\ IntOf(stripped) <= rg[2]

\* the bool of the pair validate_vat_code returns
validate_vat_code(vat) ==
    IF vat = None \/ The(vat) = <<>> THEN FALSE
    ELSE strip(The(vat)) \in Range(VALID_VAT_CODES)

\* validate_suggestion without its list of messages
validate_suggestion(acc, vat) ==
    [is_valid |-> validate_account_number(acc) /\ validate_vat_code(vat),
     account_valid |-> validate_account_number(acc),
     vat_valid |-> validate_vat_code(vat)]

Min(a, b) == IF b < a THEN b ELSE a

Max(a, b) == IF b > a THEN b ELSE a

\* The odd m below 200 for which the double nearest to m/200 lies above
\* m/200: round(x, 2) rounds the exact value of the double, so these are the
\* halves of a hundredth that Python rounds up.
RoundsUp ==
    {1, 5, 7, 11, 13, 17, 19, 23, 27, 33, 39, 45, 51, 53, 55, 63, 65, 67, 75,
     77, 79, 81, 89, 91, 93, 101, 103, 105, 107, 109, 111, 127, 129, 131,
     133, 135, 137, 151, 153, 155, 157, 159, 161, 175, 177, 179, 181, 183,
     185, 187}

\* round(q / 400, 2) in hundredths, for the double nearest to q / 400
round2(q) ==
    LET h == q \div 4 IN
    CASE q % 4 \in {0, 1} -> h
      [] q % 4 = 3 -> h + 1
      [] q % 4 = 2 -> IF 2 * h + 1 \in RoundsUp THEN h + 1 ELSE h

\* the confidence is clamped before the penalties are applied
calculate_final_confidence_clampfirst(conf, acc, vat) ==
    LET checked == validate_suggestion(acc, vat)
        c0 == Max(0, Min(400, 4 * conf))
        c1 == IF ~checked.account_valid THEN c0 \div 2 ELSE c0
        c2 == IF ~checked.vat_valid THEN c1 \div 2 ELSE c1
    IN  round2(c2)

\* calculate_final_confidence(ai_confidence, account_number, vat_code):
\* conf and the result are in hundredths, c0..c3 in quarters of a hundredth
calculate_final_confidence(conf, acc, vat) ==
    LET checked == validate_suggestion(acc, vat)
        c0 == 4 * conf
        c1 == IF ~checked.account_valid THEN c0 \div 2 ELSE c0
        c2 == IF ~checked.vat_valid THEN c1 \div 2 ELSE c1
        c3 == Max(0, Min(400, c2))
    IN  round2(c3)

\* the medium band is decided before the codes are validated
check_risk_rules_bandfirst(acc, vat, confidence) ==
    IF confidence < 50 THEN "high"
    ELSE IF confidence < 70 THEN "medium"
    ELSE IF ~validate_suggestion(acc, vat).is_valid THEN "high"
    ELSE "low"

\* check_risk_rules(account_number, vat_code, confidence), confidence in
\* hundredths
check_risk_rules(acc, vat, confidence) ==
    IF confidence < 50 THEN "high"
    ELSE IF ~validate_suggestion(acc, vat).is_valid THEN "high"
    ELSE IF confidence < 70 THEN "medium"
    ELSE "low"

\* the codes the scoring functions are tried on
AccountNumbers ==
    {None, Some(<<>>), Some(<<"4", "0", "1", "0">>), Some(<<"9", "9", "9", "9">>),
     Some(<<"0", "9", "9", "9">>), Some(<<"8", "9", "9", "9">>),
     Some(<<"4", "0", "1">>), Some(<<"4", "x", "1", "0">>)}

VatCodes ==
    {None, Some(<<"1">>), Some(<<"2">>), Some(<<"4">>), Some(<<"2", "5">>),
     Some(<<"x">>)}

\* no run of the engine exists
NoRuns ==
    /\ trigger = <<>>
    /\ user_id = <<>>
    /\ invoice_id = <<>>
    /\ steps = <<>>
    /\ context = <<>>
    /\ pc = <<>>
    /\ idx = <<>>
    /\ input_keys = <<>>
    /\ step_input = <<>>
    /\ updates = <<>>
    /\ error = <<>>
    /\ result = <<>>
    /\ audit_log = <<>>
    /\ context0 = <<>>
    /\ pre_context = <<>>
    /\ invoked = <<>>
    /\ returned = <<>>
    /\ outputs = <<>>

\* the arguments and locals of the runs
locals == <<trigger, user_id, invoice_id, steps, context, pc, idx, input_keys,
            step_input, updates, error, result, context0, pre_context,
            invoked, returned, outputs>>

runs == <<locals, audit_log>>

\* the scoring functions are about to be called on some arguments
InitScore ==
    /\ NoRuns
    /\ ai_confidence \in -MaxConfidence .. MaxConfidence
    /\ account_number \in AccountNumbers
    /\ vat_code \in VatCodes
    /\ final_confidence = None
    /\ risk_level = None
    /\ validation = None
    /\ NoWorld

\* final_confidence = calculate_final_confidence(...)
CalculateFinalConfidence ==
    /\ final_confidence = None
    /\ final_confidence' =
        Some(calculate_final_confidence(ai_confidence, account_number, vat_code))
    /\ UNCHANGED <<runs, world, ai_confidence, account_number, vat_code,
                   risk_level, validation>>

\* risk_level = check_risk_rules(account_number, vat_code, final_confidence)
CheckRiskRules ==
    /\ final_confidence # None
    /\ risk_level = None
    /\ risk_level' =
        Some(check_risk_rules(account_number, vat_code, The(final_confidence)))
    /\ UNCHANGED <<runs, world, ai_confidence, account_number, vat_code,
                   final_confidence, validation>>

NextScore == CalculateFinalConfidence \/ CheckRiskRules

SpecScore == InitScore /\ [][NextScore]_vars

\* the number of codes of the call that are invalid
Penalties ==
    (IF validate_account_number(account_number) THEN 0 ELSE 1)
    + (IF validate_vat_code(vat_code) THEN 0 ELSE 1)

\* C19: calculate_final_confidence returns the AI confidence halved once
\* for an invalid account number and once more for an invalid VAT code (a
\* quarter when both are invalid), clamped to [0, 1] and rounded to a
\* nearest hundredth; 0.9 with "9999" and "1" gives 0.45, 0.95 with "4010"
\* and "2" gives 0.95.
C19_FinalConfidence ==
    final_confidence # None =>
        LET h == The(final_confidence)
            scaled == CASE Penalties = 0 -> 4 * ai_confidence
                        [] Penalties = 1 -> 2 * ai_confidence
                        [] Penalties = 2 -> ai_confidence
            clamped == IF scaled < 0 THEN 0 ELSE IF scaled > 400 THEN 400 ELSE scaled
        IN  /\ h \in 0 .. 100
            /\ 4 * h - clamped \in -2 .. 2
            /\ (/\ ai_confidence = 90
                 /\ account_number = Some(<<"9", "9", "9", "9">>)
                 /\ vat_code = Some(<<"1">>)) => h = 45
            /\ (/\ ai_confidence = 95
                 /\ account_number = Some(<<"4", "0", "1", "0">>)
                 /\ vat_code = Some(<<"2">>)) => h = 95

\* a confidence above 1 with both codes invalid came out strictly inside
\* (0, 1), half a hundredth away from the exact quarter
C19_Witness ==
    /\ final_confidence # None
    /\ ai_confidence > 100
    /\ Penalties = 2
    /\ ai_confidence % 4 = 2
    /\ The(final_confidence) \in 1 .. 99

\* C20: check_risk_rules returns high when the confidence is below 0.5 or
\* either code is invalid, otherwise medium when the confidence is below
\* 0.7, otherwise low (the calls reach every hundredth of [0, 1] as final
\* confidence with every pair of codes).
C20_RiskLevel ==
    risk_level # None =>
        LET expected(c) ==
                IF c < 50 \/ Penalties > 0 THEN "high"
                ELSE IF c < 70 THEN "medium" ELSE "low"
        IN  risk_level = Some(expected(The(final_confidence)))

\* a call with one invalid code whose final confidence is exactly 0.5 was
\* rated high
C20_Witness ==
    /\ risk_level = Some("high")
    /\ final_confidence = Some(50)
    /\ Penalties = 1

\* ------------------------------------------------- validating the codes
\* validate_suggestion is called on every string of a few characters: the
\* digits at the ends of the bands, a blank and a letter for the account
\* number; the digits 0 to 6 and a blank for the VAT code.
MaxAccountLen == 5   \* longest account number tried
MaxVatLen == 2       \* longest VAT code tried

AccountChars == {"0", "1", "8", "9", " ", "x"}

VatChars == {"0", "1", "2", "3", "4", "5", "6", " "}

\* the strings over chars of at most n characters
Strings(chars, n) == UNION {[1 .. k -> chars] : k \in 0 .. n}

\* an Optional[str] argument whose strings are those of set
Optional(set) == {None} \cup {Some(str) : str \in set}

\* validate_suggestion is about to be called on an account number with a
\* VAT code that is missing or "1", or on a VAT code with an account number
\* that is missing or "1000"
InitValidate ==
    /\ NoRuns
    /\ NoWorld
    /\ ai_confidence = 0
    /\ final_confidence = None
    /\ risk_level = None
    /\ validation = None
    /\ \/ /\ account_number \in Optional(Strings(AccountChars, MaxAccountLen))
          /\ vat_code \in {None, Some(<<"1">>)}
       \/ /\ account_number \in {None, Some(<<"1", "0", "0", "0">>)}
          /\ vat_code \in Optional(Strings(VatChars, MaxVatLen))

\* validation = validate_suggestion(account_number, vat_code)
ValidateSuggestion ==
    /\ validation = None
    /\ validation' = Some(validate_suggestion(account_number, vat_code))
    /\ UNCHANGED <<runs, world, ai_confidence, account_number, vat_code,
                   final_confidence, risk_level>>

NextValidate == ValidateSuggestion

SpecValidate == InitValidate /\ [][NextValidate]_vars

\* a string that is non-empty, all digits, 4 characters long and whose
\* value lies in 1000 .. 8999
FourDigitInBand(acc) ==
    /\ acc # None
    /\ Len(The(acc)) = 4
    /\ \A i \in 1 .. 4 : The(acc)[i] \in Range(Digits)
    /\ IntOf(The(acc)) \in 1000 .. 8999

\* C21: validate_account_number accepts its argument exactly when it is a
\* string of 4 characters, all of them digits, whose value lies in
\* 1000 .. 8999; a missing or empty argument, one with any other character
\* (surrounding blanks included), another length or a value in 0000 .. 0999
\* or 9000 .. 9999 is rejected.
C21_AccountValidity ==
    validation # None =>
        (The(validation).account_valid <=> FourDigitInBand(account_number))

\* C22: validate_vat_code accepts its argument exactly when it is one of
\* the six codes "0", "1", "2", "3", "5", "6"; a missing argument and every
\* other value is rejected.
C22_VatValidity ==
    validation # None =>
        (The(validation).vat_valid <=>
            vat_code \in {Some(code) : code \in Range(VALID_VAT_CODES)})

\* ---------------------------------------------- the default invoice pipeline
\* Python values a parsed AI response can hold under a key: None, a str, a
\* number.  Account numbers and VAT codes are strings of characters,
\* confidences are in hundredths.
PyNone == [none |-> TRUE]
PyStr(s) == [str |-> s]
PyNum(n) == [num |-> n]

IsNone(v) == "none" \in DOMAIN v
IsStr(v) == "str" \in DOMAIN v
IsNum(v) == "num" \in DOMAIN v

\* dict.get(k, default)
Get(d, k, default) == IF k \in DOMAIN d THEN d[k] ELSE default

\* str(n) for a number n >= 0
RECURSIVE StrOf(_)
StrOf(n) ==
    IF n < 10 THEN <<Digits[n + 1]>>
    ELSE Append(StrOf(n \div 10), Digits[(n % 10) + 1])

\* float(v): Some(hundredths), or None when float raises
float(v) ==
    CASE IsNum(v) -> Some(v.num)
      [] IsStr(v) -> IF v.str = "0.9" THEN Some(90) ELSE None
      [] IsNone(v) -> None

\* str.lower() on the risk levels the responses carry
lower(s) == IF s = "LOW" THEN "low" ELSE s

Fields == {"account_number", "vat_code", "confidence", "risk_level", "reasoning"}

\* message.content of the provider's reply: text that is no JSON, a JSON
\* array, or a JSON object with any subset of the five fields; "error" is a
\* call to the provider that raised
AiResponses ==
    {[kind |-> "error"], [kind |-> "text"], [kind |-> "array"]}
    \cup {[kind |-> "object", fields |-> [k \in D |-> full[k]]] :
            D \in SUBSET Fields,
            full \in [account_number : {PyNone, PyStr(<<"4", "0", "1", "0">>),
                                        PyStr(<<"9", "9", "9", "9">>), PyNum(4010)},
                      vat_code : {PyStr(<<"1">>), PyStr(<<"7">>), PyNum(1)},
                      confidence : {PyNum(95), PyNum(60), PyStr("0.9"),
                                    PyStr("high"), PyNone},
                      risk_level : {PyStr("LOW"), PyNone},
                      reasoning : {PyStr("r")}]}

\* AIService.generate_suggestion on the reply: Some(result), or None when it
\* raises "AI suggestion generation failed"
generate_suggestion(reply) ==
    IF reply.kind # "object" THEN None
    ELSE LET parsed == reply.fields
             conf == float(Get(parsed, "confidence", PyNum(0)))
             risk == Get(parsed, "risk_level", PyStr("medium"))
         IN  IF conf = None \/ ~IsStr(risk) THEN None
             ELSE Some([account_number |-> Get(parsed, "account_number", PyNone),
                        vat_code |-> Get(parsed, "vat_code", PyNone),
                        confidence |-> PyNum(The(conf)),
                        risk_level |-> PyStr(lower(risk.str)),
                        reasoning |-> Get(parsed, "reasoning", PyStr(""))])

\* the account_number argument as validate_account_number reads it; a number
\* other than 0 has no strip()
AccountRaises(v) == IsNum(v) /\ v.num # 0

AccountArg(v) == IF IsStr(v) THEN Some(v.str) ELSE None

\* the vat_code argument as validate_vat_code reads it: str(vat_code)
VatArg(v) ==
    CASE IsStr(v) -> Some(v.str)
      [] IsNum(v) -> IF v.num = 0 THEN None ELSE Some(StrOf(v.num))
      [] IsNone(v) -> None

MimeTypes == {"application/pdf", "image/png", "text/plain"}

OcrTexts == {"", "Faktura 4010"}

\* OCRService.extract_text: the texts it can return (none for an unsupported
\* type); on a supported type the OCR library may also raise
extract_text(mime_type) ==
    IF mime_type \in {"application/pdf", "image/png"} THEN OcrTexts ELSE {}

\* AuditService.log_ocr_complete / log_ai_suggestion
log_ocr_complete(iid, ocr_output) ==
    [log_action("ocr_complete", None, Some(iid), EmptyDict)
        EXCEPT !.raw_ocr_output = Some(ocr_output)]

log_ai_suggestion(iid, prompt, response) ==
    [log_action("ai_suggestion", None, Some(iid), EmptyDict)
        EXCEPT !.ai_prompt = Some(prompt), !.ai_response = Some(response)]

DEFAULT_INVOICE_STEPS ==
    <<WithRun(StepDef("ocr", <<"invoice_id", "file_path", "mime_type">>,
                      <<"ocr_text">>, FALSE), "step_ocr"),
      WithRun(StepDef("ai_suggestion", <<"ocr_text", "invoice_id">>,
                      <<"ai_result">>, TRUE), "step_ai_suggestion"),
      WithRun(StepDef("rule_validation", <<"ai_result">>,
                      <<"risk_level", "confidence_score", "notes">>, FALSE),
              "step_rule_validation"),
      WithRun(StepDef("save_suggestion",
                      <<"invoice_id", "ai_result", "risk_level",
                        "confidence_score", "notes">>, <<>>, FALSE),
              "step_save_suggestion")>>

\* the step lists tried: every run of consecutive steps of the default list
PipelineLists ==
    {SubSeq(DEFAULT_INVOICE_STEPS, i, j) :
        i \in 1 .. Len(DEFAULT_INVOICE_STEPS) + 1,
        j \in 0 .. Len(DEFAULT_INVOICE_STEPS)}

\* the context a caller builds for an uploaded invoice, or a part of it
PipelineContexts ==
    {[k \in D |-> full[k]] :
        D \in SUBSET {"invoice_id", "file_path", "mime_type"},
        full \in [invoice_id : {1}, file_path : {"uploads/1"},
                  mime_type : MimeTypes]}

\* models.Suggestion(...) as inserted: approval_status defaults to PENDING
Suggestion(iid, acc, vat, confidence_score, risk, notes) ==
    [invoice_id |-> iid, account_number |-> acc, vat_code |-> vat,
     confidence_score |-> confidence_score, risk_level |-> risk,
     approval_status |-> "PENDING", approved_by |-> None, notes |-> notes]

\* str(e) of the exceptions the step functions raise
KeyError(k) == <<"KeyError", k>>
NotFound(iid) == <<"Invoice not found", iid>>

\* _get_invoice finds the row
Found(iid) == invoice_status # None /\ iid = 1

\* the step function fn of the current step has been called and none of its
\* statements has run
Enter(r, fn) ==
    /\ pc[r] = "call"
    /\ step(r).run = fn
    /\ frame.call # Len(invoked[r])

\* the step function fn of the current step is at position at
InBody(r, fn, at) ==
    /\ pc[r] = "call"
    /\ step(r).run = fn
    /\ frame.call = Len(invoked[r])
    /\ frame.at = at

\* frames of the current step function
At(r, at) == [NoFrame EXCEPT !.call = Len(invoked[r]), !.at = at]
Raising(r, msg) == [At(r, "raise") EXCEPT !.error = msg]
Returning(r, ret) == [At(r, "return") EXCEPT !.ret = ret]

\* the first key of keys that ctx lacks, as a one-element list, or <<>>
Missing(ctx, keys) ==
    LET absent == SelectSeq(keys, LAMBDA k : k \notin DOMAIN ctx) IN
    IF absent = <<>> THEN <<>> ELSE <<absent[1]>>

\* step_ocr up to the first commit
OcrStart(r) ==
    /\ Enter(r, "step_ocr")
    /\ LET ctx == step_input[r]
           missing == Missing(ctx, <<"invoice_id", "file_path", "mime_type">>)
       IN  IF missing # <<>>
           THEN /\ frame' = Raising(r, KeyError(missing[1]))
                /\ UNCHANGED status
           ELSE IF ~Found(ctx["invoice_id"])
           THEN /\ frame' = Raising(r, NotFound(ctx["invoice_id"]))
                /\ UNCHANGED status
           ELSE /\ SetStatus("PROCESSING")
                /\ frame' = At(r, "extract")
    /\ UNCHANGED <<runs, scoring, inline, request, suggestions>>

\* step_ocr from extract_text to its return
OcrExtract(r) ==
    /\ InBody(r, "step_ocr", "extract")
    /\ LET ctx == step_input[r] IN
        \/ /\ extract_text(ctx["mime_type"]) = {}
           /\ frame' = Raising(r, <<"Unsupported file type">>)
           /\ UNCHANGED <<status, audit_log>>
        \/ /\ extract_text(ctx["mime_type"]) # {}
           /\ frame' = Raising(r, <<"OCR extraction failed">>)
           /\ UNCHANGED <<status, audit_log>>
        \/ \E ocr_text \in extract_text(ctx["mime_type"]) :
            /\ audit_log' = Append(audit_log,
                                   log_ocr_complete(ctx["invoice_id"], ocr_text))
            /\ SetStatus("OCR_COMPLETE")
            /\ frame' = Returning(r, [k \in {"ocr_text"} |-> ocr_text])
    /\ UNCHANGED <<locals, scoring, inline, request, suggestions>>

\* step_ai_suggestion up to the commit of AI_PROCESSING
AiStart(r) ==
    /\ Enter(r, "step_ai_suggestion")
    /\ LET ctx == step_input[r] IN
        IF "ocr_text" \notin DOMAIN ctx
        THEN /\ frame' = Raising(r, KeyError("ocr_text"))
             /\ UNCHANGED status
        ELSE IF "invoice_id" \notin DOMAIN ctx
        THEN /\ frame' = At(r, "generate")
             /\ UNCHANGED status
        ELSE IF ~Found(ctx["invoice_id"])
        THEN /\ frame' = Raising(r, NotFound(ctx["invoice_id"]))
             /\ UNCHANGED status
        ELSE /\ SetStatus("AI_PROCESSING")
             /\ frame' = At(r, "generate")
    /\ UNCHANGED <<runs, scoring, inline, request, suggestions>>

\* step_ai_suggestion from generate_suggestion to its return
AiGenerate(r) ==
    /\ InBody(r, "step_ai_suggestion", "generate")
    /\ \E reply \in AiResponses :
        LET ctx == step_input[r]
            ai_result == generate_suggestion(reply)
        IN  IF ai_result = None
            THEN /\ frame' = [Raising(r, <<"AI suggestion generation failed">>)
                                EXCEPT !.content = Some(reply)]
                 /\ UNCHANGED audit_log
            ELSE /\ frame' = [Returning(r, [k \in {"ai_result"} |-> The(ai_result)])
                                EXCEPT !.content = Some(reply)]
                 /\ audit_log' =
                        IF "invoice_id" \in DOMAIN ctx
                        THEN Append(audit_log,
                                log_ai_suggestion(ctx["invoice_id"],
                                                  ctx["ocr_text"], The(ai_result)))
                        ELSE audit_log
    /\ UNCHANGED <<locals, scoring, inline, request, status, suggestions>>

\* step_rule_validation leaves the notes out of the dict it returns
RuleValidation_nonotes(r) ==
    /\ Enter(r, "step_rule_validation")
    /\ LET ctx == step_input[r] IN
        IF "ai_result" \notin DOMAIN ctx
        THEN frame' = Raising(r, KeyError("ai_result"))
        ELSE LET ai_result == ctx["ai_result"]
                 acc == Get(ai_result, "account_number", PyNone)
                 vat == Get(ai_result, "vat_code", PyNone)
             IN  IF "confidence" \notin DOMAIN ai_result
                 THEN frame' = Raising(r, KeyError("confidence"))
                 ELSE IF AccountRaises(acc)
                 THEN frame' = Raising(r, <<"AttributeError", "strip">>)
                 ELSE LET conf == calculate_final_confidence(
                                    ai_result["confidence"].num,
                                    AccountArg(acc), VatArg(vat))
                      IN  frame' = Returning(r,
                            [risk_level |-> check_risk_rules(AccountArg(acc),
                                                             VatArg(vat), conf),
                             confidence_score |-> conf])
    /\ UNCHANGED <<runs, scoring, inline, request, status, suggestions>>

\* step_rule_validation
RuleValidation(r) ==
    /\ Enter(r, "step_rule_validation")
    /\ LET ctx == step_input[r] IN
        IF "ai_result" \notin DOMAIN ctx
        THEN frame' = Raising(r, KeyError("ai_result"))
        ELSE LET ai_result == ctx["ai_result"]
                 acc == Get(ai_result, "account_number", PyNone)
                 vat == Get(ai_result, "vat_code", PyNone)
             IN  IF "confidence" \notin DOMAIN ai_result
                 THEN frame' = Raising(r, KeyError("confidence"))
                 ELSE IF AccountRaises(acc)
                 THEN frame' = Raising(r, <<"AttributeError", "strip">>)
                 ELSE LET conf == calculate_final_confidence(
                                    ai_result["confidence"].num,
                                    AccountArg(acc), VatArg(vat))
                      IN  frame' = Returning(r,
                            [risk_level |-> check_risk_rules(AccountArg(acc),
                                                             VatArg(vat), conf),
                             confidence_score |-> conf,
                             notes |-> Get(ai_result, "reasoning", PyStr(""))])
    /\ UNCHANGED <<runs, scoring, inline, request, status, suggestions>>

\* the confidence the AI reported is saved in place of the scored one
SaveSuggestion_rawconfidence(r) ==
    /\ Enter(r, "step_save_suggestion")
    /\ LET ctx == step_input[r]
           missing == Missing(ctx, <<"invoice_id", "ai_result", "risk_level",
                                     "confidence_score">>)
       IN  IF missing # <<>>
           THEN /\ frame' = Raising(r, KeyError(missing[1]))
                /\ UNCHANGED <<status, suggestions>>
           ELSE IF ~Found(ctx["invoice_id"])
           THEN /\ frame' = Raising(r, NotFound(ctx["invoice_id"]))
                /\ UNCHANGED <<status, suggestions>>
           ELSE \/ /\ suggestions' = Append(suggestions,
                        Suggestion(ctx["invoice_id"],
                                   Get(ctx["ai_result"], "account_number", PyNone),
                                   Get(ctx["ai_result"], "vat_code", PyNone),
                                   ctx["ai_result"]["confidence"].num, ctx["risk_level"],
                                   Get(ctx, "notes", PyStr(""))))
                   /\ SetStatus("COMPLETE")
                   /\ frame' = Returning(r, EmptyDict)
                \/ /\ frame' = Raising(r, <<"commit failed">>)
                   /\ UNCHANGED <<status, suggestions>>
    /\ UNCHANGED <<runs, scoring, inline, request>>

\* step_save_suggestion; the commit of the new row may fail
SaveSuggestion(r) ==
    /\ Enter(r, "step_save_suggestion")
    /\ LET ctx == step_input[r]
           missing == Missing(ctx, <<"invoice_id", "ai_result", "risk_level",
                                     "confidence_score">>)
       IN  IF missing # <<>>
           THEN /\ frame' = Raising(r, KeyError(missing[1]))
                /\ UNCHANGED <<status, suggestions>>
           ELSE IF ~Found(ctx["invoice_id"])
           THEN /\ frame' = Raising(r, NotFound(ctx["invoice_id"]))
                /\ UNCHANGED <<status, suggestions>>
           ELSE \/ /\ suggestions' = Append(suggestions,
                        Suggestion(ctx["invoice_id"],
                                   Get(ctx["ai_result"], "account_number", PyNone),
                                   Get(ctx["ai_result"], "vat_code", PyNone),
                                   ctx["confidence_score"], ctx["risk_level"],
                                   Get(ctx, "notes", PyStr(""))))
                   /\ SetStatus("COMPLETE")
                   /\ frame' = Returning(r, EmptyDict)
                \/ /\ frame' = Raising(r, <<"commit failed">>)
                   /\ UNCHANGED <<status, suggestions>>
    /\ UNCHANGED <<runs, scoring, inline, request>>

\* the step function returns what it built
BodyReturns(r) ==
    /\ pc[r] = "call"
    /\ frame.call = Len(invoked[r])
    /\ frame.at = "return"
    /\ StepReturnsWith(r, frame.ret)

\* the step function lets its exception out
BodyRaises(r) ==
    /\ pc[r] = "call"
    /\ frame.call = Len(invoked[r])
    /\ frame.at = "raise"
    /\ StepRaisesWith(r, frame.error)

\* run_workflow("invoice_uploaded", context, steps, db, 1, 1) is entered
InitPipeline ==
    /\ trigger = [r \in Runs |-> "invoice_uploaded"]
    /\ user_id = [r \in Runs |-> Some(1)]
    /\ invoice_id = [r \in Runs |-> Some(1)]
    /\ steps \in [Runs -> PipelineLists]
    /\ context \in [Runs -> PipelineContexts]
    /\ context0 = context
    /\ pre_context = context
    /\ pc = [r \in Runs |-> "loop"]
    /\ idx = [r \in Runs |-> 1]
    /\ input_keys = [r \in Runs |-> <<>>]
    /\ step_input = [r \in Runs |-> EmptyDict]
    /\ updates = [r \in Runs |-> EmptyDict]
    /\ error = [r \in Runs |-> None]
    /\ result = [r \in Runs |-> None]
    /\ invoked = [r \in Runs |-> <<>>]
    /\ returned = [r \in Runs |-> None]
    /\ outputs = [r \in Runs |-> <<>>]
    /\ audit_log = <<>>
    /\ NoScoring
    /\ invoice_status \in {None, Some("UPLOADED")}
    /\ status_log = <<>>
    /\ inline = None
    /\ suggestions = <<>>
    /\ frame = NoFrame
    /\ request = NoRequest

NextPipeline ==
    \E r \in Runs :
        \/ BeginStep(r)
        \/ OcrStart(r)
        \/ OcrExtract(r)
        \/ AiStart(r)
        \/ AiGenerate(r)
        \/ RuleValidation(r)
        \/ SaveSuggestion(r)
        \/ BodyReturns(r)
        \/ BodyRaises(r)
        \/ LogSuccess(r)
        \/ LogFailure(r)
        \/ Return(r)

SpecPipeline == InitPipeline /\ [][NextPipeline]_vars

\* C16: the default pipeline cut after its first step (ocr), run on a
\* context holding exactly invoice_id, file_path and mime_type, ends with a
\* context whose keys are those three and ocr_text and nothing else; the
\* three keep their values, and no other key appears at any point of the run.
C16_TruncatedPipeline ==
    \A r \in Runs :
        (/\ steps[r] = SubSeq(DEFAULT_INVOICE_STEPS, 1, 1)
         /\ DOMAIN context0[r] = {"invoice_id", "file_path", "mime_type"})
        => /\ DOMAIN context[r] \subseteq DOMAIN context0[r] \cup {"ocr_text"}
           /\ pc[r] = "done" =>
                /\ DOMAIN context[r] = DOMAIN context0[r] \cup {"ocr_text"}
                /\ \A k \in DOMAIN context0[r] : context[r][k] = context0[r][k]
                /\ context[r]["ocr_text"] \in OcrTexts
                /\ result[r] = Some(context[r])

\* the one-step pipeline returned with the extracted text
C16_Witness ==
    \E r \in Runs :
        /\ steps[r] = SubSeq(DEFAULT_INVOICE_STEPS, 1, 1)
        /\ DOMAIN context0[r] = {"invoice_id", "file_path", "mime_type"}
        /\ pc[r] = "done"
        /\ context[r]["ocr_text"] = "Faktura 4010"

\* the reply is no JSON object or lacks one of the five fields
Malformed(reply) ==
    /\ reply.kind # "error"
    /\ reply.kind # "object" \/ ~(Fields \subseteq DOMAIN reply.fields)

\* C17: a malformed reply of the AI provider (not parseable, or lacking one
\* of account_number, vat_code, confidence, risk_level, reasoning) makes
\* step_ai_suggestion fail: the step never returns an ai_result built from
\* such a reply.
C17_MalformedReplyFails ==
    (frame.content # None /\ Malformed(The(frame.content)))
        => frame.at = "raise"

\* ------------------------------------------------------- the HTTP endpoints
\* One invoice is uploaded (by user 1) and processed by process_invoice;
\* suggestions are approved or rejected and the audit trail is queried, one
\* request at a time.  The dependency require_role("admin") of the audit
\* endpoints either admits a request or refuses it with 403.
MaxDecisions == 2   \* approve / reject requests that are carried out

Users == {[id |-> 1, role |-> "accountant"], [id |-> 2, role |-> "accountant"],
          [id |-> 3, role |-> "admin"]}

ALLOWED_EXTENSIONS == {".pdf", ".png", ".jpg", ".jpeg"}

\* an uploaded file: its extension, whether it is within MAX_UPLOAD_SIZE, and
\* the content type the client declares
Files == [ext : {".pdf", ".exe"}, small : BOOLEAN, content_type : MimeTypes]

\* AuditService.log_upload / log_approval
log_upload(uid, iid, filename, file_size) ==
    [log_action("upload", Some(uid), Some(iid),
                [filename |-> filename, file_size |-> file_size])
        EXCEPT !.ip_address = Some("ip"), !.user_agent = Some("agent")]

log_approval(uid, iid, suggestion_id, approved) ==
    [log_action(IF approved THEN "approve" ELSE "reject", Some(uid), Some(iid),
                [suggestion_id |-> suggestion_id, approved |-> approved])
        EXCEPT !.ip_address = Some("ip"), !.user_agent = Some("agent")]

\* no request is being served
Idle == request.at \in {"", "responded"}

\* the response of operation op
Responded(op, status_code, body) ==
    [NoRequest EXCEPT !.op = op, !.at = "responded",
                      !.status_code = status_code, !.body = body]

\* the exception msg leaves the try block of process_invoice
Failing(msg) == [request EXCEPT !.at = "except", !.error = Some(msg)]

Reverse(q) == [j \in 1 .. Len(q) |-> q[Len(q) + 1 - j]]

\* the approve and reject rows of the trail
Decisions == SelectSeq(audit_log, LAMBDA e : e.action \in {"approve", "reject"})

\* upload_invoice up to the call of process_invoice
UploadInvoice ==
    /\ Idle
    /\ invoice_status = None
    /\ \E file \in Files :
        IF file.ext \notin ALLOWED_EXTENSIONS \/ ~file.small
        THEN /\ request' = Responded("upload", 400, <<>>)
             /\ UNCHANGED <<status, audit_log>>
        ELSE /\ SetStatus("UPLOADED")
             /\ audit_log' = Append(audit_log, log_upload(1, 1, "file", 1))
             /\ request' = [NoRequest EXCEPT !.op = "upload", !.at = "process",
                                             !.mime_type = file.content_type]
    /\ UNCHANGED <<locals, scoring, inline, suggestions, frame>>

\* process_invoice: the row is found; status PROCESSING is committed
ProcStart ==
    /\ request.at = "process"
    /\ SetStatus("PROCESSING")
    /\ request' = [request EXCEPT !.at = "extract"]
    /\ UNCHANGED <<runs, scoring, inline, suggestions, frame>>

\* process_invoice from extract_text to the commit of OCR_COMPLETE
ProcExtract ==
    /\ request.at = "extract"
    /\ \/ /\ extract_text(request.mime_type) = {}
          /\ request' = Failing(<<"Unsupported file type">>)
          /\ UNCHANGED <<status, audit_log>>
       \/ /\ extract_text(request.mime_type) # {}
          /\ request' = Failing(<<"OCR extraction failed">>)
          /\ UNCHANGED <<status, audit_log>>
       \/ \E ocr_text \in extract_text(request.mime_type) :
            /\ audit_log' = Append(audit_log, log_ocr_complete(1, ocr_text))
            /\ SetStatus("OCR_COMPLETE")
            /\ request' = [request EXCEPT !.at = "ai", !.ocr_text = Some(ocr_text)]
    /\ UNCHANGED <<locals, scoring, inline, suggestions, frame>>

\* process_invoice: status AI_PROCESSING is committed
ProcAiStart ==
    /\ request.at = "ai"
    /\ SetStatus("AI_PROCESSING")
    /\ request' = [request EXCEPT !.at = "generate"]
    /\ UNCHANGED <<runs, scoring, inline, suggestions, frame>>

\* process_invoice: generate_suggestion and log_ai_suggestion
ProcGenerate ==
    /\ request.at = "generate"
    /\ \E reply \in AiResponses :
        LET ai_result == generate_suggestion(reply) IN
        IF ai_result = None
        THEN /\ request' = Failing(<<"AI suggestion generation failed">>)
             /\ UNCHANGED audit_log
        ELSE /\ audit_log' = Append(audit_log,
                    log_ai_suggestion(1, The(request.ocr_text), The(ai_result)))
             /\ request' = [request EXCEPT !.at = "score", !.ai_result = ai_result]
    /\ UNCHANGED <<locals, scoring, inline, status, suggestions, frame>>

\* process_invoice: calculate_final_confidence and check_risk_rules
ProcScore ==
    /\ request.at = "score"
    /\ LET ai_result == The(request.ai_result)
           acc == ai_result["account_number"]
           vat == ai_result["vat_code"]
       IN  IF AccountRaises(acc)
           THEN request' = Failing(<<"AttributeError", "strip">>)
           ELSE LET conf == calculate_final_confidence(
                                ai_result["confidence"].num,
                                AccountArg(acc), VatArg(vat))
                IN  request' = [request EXCEPT
                        !.at = "save",
                        !.final_confidence = Some(conf),
                        !.risk_level = Some(check_risk_rules(AccountArg(acc),
                                                             VatArg(vat), conf))]
    /\ UNCHANGED <<runs, scoring, inline, status, suggestions, frame>>

\* status COMPLETE is committed on its own before the suggestion is saved
ProcSave_statusfirst ==
    /\ request.at = "save"
    /\ LET ai_result == The(request.ai_result) IN
        \/ /\ suggestions' = Append(suggestions,
                Suggestion(1, ai_result["account_number"], ai_result["vat_code"],
                           The(request.final_confidence), The(request.risk_level),
                           Get(ai_result, "reasoning", PyStr(""))))
           /\ SetStatus("COMPLETE")
           /\ request' = [request EXCEPT !.at = "responded", !.status_code = 201]
        \/ /\ request' = Failing(<<"commit failed">>)
           /\ SetStatus("COMPLETE")
           /\ UNCHANGED suggestions
    /\ UNCHANGED <<runs, scoring, inline, frame>>

\* process_invoice: the suggestion is added and committed together with
\* status COMPLETE, or that commit fails; upload_invoice then returns
ProcSave ==
    /\ request.at = "save"
    /\ LET ai_result == The(request.ai_result) IN
        \/ /\ suggestions' = Append(suggestions,
                Suggestion(1, ai_result["account_number"], ai_result["vat_code"],
                           The(request.final_confidence), The(request.risk_level),
                           Get(ai_result, "reasoning", PyStr(""))))
           /\ SetStatus("COMPLETE")
           /\ request' = [request EXCEPT !.at = "responded", !.status_code = 201]
        \/ /\ request' = Failing(<<"commit failed">>)
           /\ UNCHANGED <<status, suggestions>>
    /\ UNCHANGED <<runs, scoring, inline, frame>>

\* the except block puts the invoice back in line instead of failing it
ProcExcept_requeue ==
    /\ request.at = "except"
    /\ SetStatus("UPLOADED")
    /\ request' = [request EXCEPT !.at = "upload_except"]
    /\ UNCHANGED <<runs, scoring, inline, suggestions, frame>>

\* process_invoice, except Exception: status ERROR is committed; raise
ProcExcept ==
    /\ request.at = "except"
    /\ SetStatus("ERROR")
    /\ request' = [request EXCEPT !.at = "upload_except"]
    /\ UNCHANGED <<runs, scoring, inline, suggestions, frame>>

\* upload_invoice, except Exception: status ERROR is committed; HTTP 500
UploadExcept ==
    /\ request.at = "upload_except"
    /\ SetStatus("ERROR")
    /\ request' = [request EXCEPT !.at = "responded", !.status_code = 500]
    /\ UNCHANGED <<runs, scoring, inline, suggestions, frame>>

\* the decision overwrites the newest row of the trail
ApproveSuggestion_amend ==
    /\ Idle
    /\ Len(Decisions) < MaxDecisions
    /\ \E current_user \in Users, approved \in BOOLEAN, notes \in {None, Some("ok")} :
        IF suggestions = <<>>
        THEN /\ request' = Responded("approve", 404, <<>>)
             /\ UNCHANGED <<suggestions, audit_log>>
        ELSE IF current_user.id # 1 /\ current_user.role # "admin"
        THEN /\ request' = Responded("approve", 403, <<>>)
             /\ UNCHANGED <<suggestions, audit_log>>
        ELSE LET decided ==
                    [suggestions[1] EXCEPT
                        !.approval_status = IF approved THEN "APPROVED" ELSE "REJECTED",
                        !.approved_by = Some(current_user.id),
                        !.notes = IF notes = None THEN @ ELSE PyStr(The(notes))]
             IN  /\ suggestions' = [suggestions EXCEPT ![1] = decided]
                 /\ audit_log' = [audit_log EXCEPT ![Len(audit_log)] =
                                    log_approval(current_user.id, 1, 1, approved)]
                 /\ request' = Responded("approve", 200, <<decided>>)
    /\ UNCHANGED <<locals, scoring, inline, status, frame>>

\* approve_suggestion
ApproveSuggestion ==
    /\ Idle
    /\ Len(Decisions) < MaxDecisions
    /\ \E current_user \in Users, approved \in BOOLEAN, notes \in {None, Some("ok")} :
        IF suggestions = <<>>
        THEN /\ request' = Responded("approve", 404, <<>>)
             /\ UNCHANGED <<suggestions, audit_log>>
        ELSE IF current_user.id # 1 /\ current_user.role # "admin"
        THEN /\ request' = Responded("approve", 403, <<>>)
             /\ UNCHANGED <<suggestions, audit_log>>
        ELSE LET decided ==
                    [suggestions[1] EXCEPT
                        !.approval_status = IF approved THEN "APPROVED" ELSE "REJECTED",
                        !.approved_by = Some(current_user.id),
                        !.notes = IF notes = None THEN @ ELSE PyStr(The(notes))]
             IN  /\ suggestions' = [suggestions EXCEPT ![1] = decided]
                 /\ audit_log' = Append(audit_log,
                                    log_approval(current_user.id, 1, 1, approved))
                 /\ request' = Responded("approve", 200, <<decided>>)
    /\ UNCHANGED <<locals, scoring, inline, status, frame>>

\* list_audit_logs, newest first, for every invoice or for invoice 1
ListAuditLogs ==
    /\ Idle
    /\ \E admitted \in BOOLEAN, iid \in {None, Some(1)} :
        request' =
            IF ~admitted
            THEN Responded("list_audit_logs", 403, <<>>)
            ELSE Responded("list_audit_logs", 200,
                    Reverse(IF iid = None THEN audit_log
                            ELSE SelectSeq(audit_log,
                                           LAMBDA e : e.invoice_id = iid)))
    /\ UNCHANGED <<runs, scoring, inline, status, suggestions, frame>>

\* get_audit_log for the newest id or the one after it
GetAuditLog ==
    /\ Idle
    /\ \E admitted \in BOOLEAN,
          audit_log_id \in {Len(audit_log), Len(audit_log) + 1} :
        request' =
            IF ~admitted
            THEN Responded("get_audit_log", 403, <<>>)
            ELSE IF audit_log_id \notin DOMAIN audit_log
            THEN Responded("get_audit_log", 404, <<>>)
            ELSE Responded("get_audit_log", 200, <<audit_log[audit_log_id]>>)
    /\ UNCHANGED <<runs, scoring, inline, status, suggestions, frame>>

InitApp ==
    /\ NoRuns
    /\ NoScoring
    /\ NoWorld

NextApp ==
    \/ UploadInvoice
    \/ ProcStart
    \/ ProcExtract
    \/ ProcAiStart
    \/ ProcGenerate
    \/ ProcScore
    \/ ProcSave
    \/ ProcExcept
    \/ UploadExcept
    \/ ApproveSuggestion
    \/ ListAuditLogs
    \/ GetAuditLog

SpecApp == InitApp /\ [][NextApp]_vars

\* C14: the audit trail is append-only: over every sequence of uploads,
\* processing stages, approvals, rejections and audit queries, each step
\* leaves the rows already in the trail as they are, in place, and at most
\* adds rows after them.
C14_AppendOnly ==
    [][/\ Len(audit_log') >= Len(audit_log)
       /\ SubSeq(audit_log', 1, Len(audit_log)) = audit_log]_vars

\* an admin lists a trail that holds the upload, both processing rows, an
\* approval and a rejection
C14_Witness ==
    /\ request.op = "list_audit_logs"
    /\ request.status_code = 200
    /\ Len(request.body) = 5
    /\ {request.body[1].action, request.body[2].action} = {"approve", "reject"}

DefaultRun(r) ==
    /\ steps[r] = DEFAULT_INVOICE_STEPS
    /\ DOMAIN context0[r] = {"invoice_id", "file_path", "mime_type"}

\* C25: in a run of DEFAULT_INVOICE_STEPS on a context holding invoice_id,
\* file_path and mime_type, every step that is reached finds each key of its
\* allowed_inputs in the context, so its view holds all of them; and no
\* output key is declared by two steps.
C25_WellFormedDataflow ==
    /\ \A i, j \in DOMAIN DEFAULT_INVOICE_STEPS :
        i # j => Range(DEFAULT_INVOICE_STEPS[i].allowed_outputs)
                 \cap Range(DEFAULT_INVOICE_STEPS[j].allowed_outputs) = {}
    /\ \A r \in Runs :
        (DefaultRun(r) /\ pc[r] \in {"call", "log_ok", "log_fail"}) =>
            /\ Range(step(r).allowed_inputs) \subseteq DOMAIN pre_context[r]
            /\ input_keys[r] = step(r).allowed_inputs
            /\ DOMAIN step_input[r] = Range(step(r).allowed_inputs)

\* the last step of the default pipeline was reached and given its view
C25_Witness ==
    \E r \in Runs :
        /\ DefaultRun(r)
        /\ pc[r] = "call"
        /\ step(r).name = "save_suggestion"
        /\ DOMAIN step_input[r] =
            {"invoice_id", "ai_result", "risk_level", "confidence_score", "notes"}

\* ProcessingStatus in the order processing goes through it
StatusChain == <<"UPLOADED", "PROCESSING", "OCR_COMPLETE", "AI_PROCESSING",
                 "COMPLETE">>

\* the status that follows status st in the chain, if any
NextStatus(st) ==
    IF st = None THEN Some(StatusChain[1])
    ELSE {StatusChain[j + 1] : j \in {i \in 1 .. 4 : StatusChain[i] = The(st)}}

\* C24: every change of the invoice's status goes to the next status of
\* UPLOADED -> PROCESSING -> OCR_COMPLETE -> AI_PROCESSING -> COMPLETE or to
\* ERROR; COMPLETE and ERROR are never left, so no status is revisited; and
\* the step that sets COMPLETE is the one that persists the suggestion.
C24_StatusMachine ==
    [][invoice_status' # invoice_status =>
        /\ invoice_status \notin {Some("COMPLETE"), Some("ERROR")}
        /\ \/ invoice_status' = NextStatus(invoice_status)
           \/ invoice_status' = Some("ERROR") /\ invoice_status # None
        /\ invoice_status' = Some("COMPLETE") =>
            /\ Len(suggestions') = Len(suggestions) + 1
            /\ Last(suggestions').invoice_id = 1]_vars

\* the invoice went through the whole chain: the trail holds its upload,
\* OCR and AI rows and its suggestion is saved
C24_Witness ==
    /\ invoice_status = Some("COMPLETE")
    /\ Len(suggestions) = 1
    /\ [j \in 1 .. Len(audit_log) |-> audit_log[j].action]
        = <<"upload", "ocr_complete", "ai_suggestion">>

\* ------------------------------------------------ an audit sink that raises
\* log_action ends with db.commit(), which can raise.  Both calls of
\* log_action in run_workflow are modelled with that outcome: the one in the
\* try block is caught by the except clause of the same step, the one in
\* the except clause leaves run_workflow in place of the step's exception.
SinkErrors == {<<"audit commit failed">>}

\* audit_service.log_action(..., success=True) raises inside the try block
LogSuccessRaises(r) ==
    /\ pc[r] = "log_ok"
    /\ \E msg \in SinkErrors : error' = [error EXCEPT ![r] = Some(msg)]
    /\ pc' = [pc EXCEPT ![r] = "log_fail"]
    /\ UNCHANGED <<args, context, idx, input_keys, step_input, updates,
                   result, audit_log, pre_context, invoked, returned, outputs>>

\* audit_service.log_action(..., success=False) raises inside the except block
LogFailureRaises(r) ==
    /\ pc[r] = "log_fail"
    /\ \E msg \in SinkErrors : error' = [error EXCEPT ![r] = Some(msg)]
    /\ pc' = [pc EXCEPT ![r] = "raised"]
    /\ UNCHANGED <<args, context, idx, input_keys, step_input, updates,
                   result, audit_log, pre_context, invoked, returned, outputs>>

NextSink ==
    \E r \in Runs :
        \/ BeginStep(r)
        \/ StepReturns(r)
        \/ StepRaises(r)
        \/ LogSuccess(r)
        \/ LogSuccessRaises(r)
        \/ LogFailure(r)
        \/ LogFailureRaises(r)
        \/ Return(r)

SpecSink == Init /\ [][NextSink]_vars

\* the outputs of the j-th step invoked by run r were merged into its context
Merged(r, j) == j <= Len(outputs[r])

\* the row of the trail for the j-th step invoked has success = b; a run
\* stops at the first step without a success row, so row j is of step j
Recorded(j, b) ==
    /\ j <= Len(audit_log)
    /\ The(audit_log[j].metadata).success = b

\* C23: between the steps of a run and after it, the outputs of a step are
\* merged into the context exactly when the trail holds a success=true row
\* for the step, and no step has its outputs merged and a success=false row,
\* also when log_action raises on the success path.
C23_TrailMatchesContext ==
    \A r \in Runs :
        pc[r] \in {"loop", "done", "raised"} =>
            \A j \in 1 .. Len(invoked[r]) :
                /\ Merged(r, j) <=> Recorded(j, TRUE)
                /\ ~(Merged(r, j) /\ Recorded(j, FALSE))

\* ------------------------------- process_invoice and the engine, side by side
\* An invoice is uploaded and processed by process_invoice.  Rerun then keeps
\* what that left behind and hands the same upload to run_workflow with
\* DEFAULT_INVOICE_STEPS on a database as upload_invoice had committed it.
\* The extraction, the AI service and the last commit answer the engine as
\* they answered process_invoice.
IsPrefix(p, q) == Len(p) <= Len(q) /\ SubSeq(q, 1, Len(p)) = p

\* the context a caller builds for invoice 1
InvoiceContext(mime_type) ==
    [invoice_id |-> 1, file_path |-> "uploads/1", mime_type |-> mime_type]

\* run_workflow("invoice_uploaded", context, DEFAULT_INVOICE_STEPS, db, 1, 1)
\* is entered for the upload process_invoice has finished with
Rerun ==
    /\ inline = None
    /\ request.op = "upload"
    /\ request.at = "responded"
    /\ invoice_status # None
    /\ inline' = Some([request |-> request, status_log |-> status_log,
                       audit_log |-> audit_log, suggestions |-> suggestions])
    /\ invoice_status' = Some("UPLOADED")
    /\ status_log' = <<"UPLOADED">>
    /\ audit_log' = SubSeq(audit_log, 1, 1)
    /\ suggestions' = <<>>
    /\ request' = NoRequest
    /\ trigger' = [r \in Runs |-> "invoice_uploaded"]
    /\ user_id' = [r \in Runs |-> Some(1)]
    /\ invoice_id' = [r \in Runs |-> Some(1)]
    /\ steps' = [r \in Runs |-> DEFAULT_INVOICE_STEPS]
    /\ context' = [r \in Runs |-> InvoiceContext(request.mime_type)]
    /\ context0' = context'
    /\ pre_context' = context'
    /\ pc' = [r \in Runs |-> "loop"]
    /\ idx' = [r \in Runs |-> 1]
    /\ input_keys' = [r \in Runs |-> <<>>]
    /\ step_input' = [r \in Runs |-> EmptyDict]
    /\ updates' = [r \in Runs |-> EmptyDict]
    /\ error' = [r \in Runs |-> None]
    /\ result' = [r \in Runs |-> None]
    /\ invoked' = [r \in Runs |-> <<>>]
    /\ returned' = [r \in Runs |-> None]
    /\ outputs' = [r \in Runs |-> <<>>]
    /\ UNCHANGED <<scoring, frame>>

\* extract_text answered step_ocr as it answered process_invoice
SameExtraction ==
    LET was == The(inline).request IN
    /\ frame.at = "return" => was.ocr_text = Some(frame.ret["ocr_text"])
    /\ frame.at = "raise" => was.ocr_text = None /\ was.error = Some(frame.error)

\* generate_suggestion answered step_ai_suggestion as it answered process_invoice
SameSuggestion ==
    LET was == The(inline).request IN
    /\ frame.at = "return" => was.ai_result = Some(frame.ret["ai_result"])
    /\ frame.at = "raise" => was.ai_result = None /\ was.error = Some(frame.error)

\* the commit of the suggestion failed for step_save_suggestion exactly if it
\* failed for process_invoice
SameCommit ==
    (frame.at = "raise" /\ frame.error = <<"commit failed">>)
        <=> The(inline).request.error = Some(<<"commit failed">>)

\* step_ocr, step_ai_suggestion and step_save_suggestion with those answers
OcrExtractSame(r) == OcrExtract(r) /\ SameExtraction'

AiGenerateSame(r) == AiGenerate(r) /\ SameSuggestion'

SaveSuggestionSame(r) == SaveSuggestion(r) /\ SameCommit'

\* an empty database; run_workflow has not been called
InitRefine ==
    /\ trigger = [r \in Runs |-> ""]
    /\ user_id = [r \in Runs |-> None]
    /\ invoice_id = [r \in Runs |-> None]
    /\ steps = [r \in Runs |-> <<>>]
    /\ context = [r \in Runs |-> EmptyDict]
    /\ context0 = context
    /\ pre_context = context
    /\ pc = [r \in Runs |-> "idle"]
    /\ idx = [r \in Runs |-> 1]
    /\ input_keys = [r \in Runs |-> <<>>]
    /\ step_input = [r \in Runs |-> EmptyDict]
    /\ updates = [r \in Runs |-> EmptyDict]
    /\ error = [r \in Runs |-> None]
    /\ result = [r \in Runs |-> None]
    /\ invoked = [r \in Runs |-> <<>>]
    /\ returned = [r \in Runs |-> None]
    /\ outputs = [r \in Runs |-> <<>>]
    /\ audit_log = <<>>
    /\ NoScoring
    /\ NoWorld

NextRefine ==
    \/ UploadInvoice
    \/ ProcStart
    \/ ProcExtract
    \/ ProcAiStart
    \/ ProcGenerate
    \/ ProcScore
    \/ ProcSave
    \/ ProcExcept
    \/ UploadExcept
    \/ Rerun
    \/ \E r \in Runs :
        \/ BeginStep(r)
        \/ OcrStart(r)
        \/ OcrExtractSame(r)
        \/ AiStart(r)
        \/ AiGenerateSame(r)
        \/ RuleValidation(r)
        \/ SaveSuggestionSame(r)
        \/ BodyReturns(r)
        \/ BodyRaises(r)
        \/ LogSuccess(r)
        \/ LogFailure(r)
        \/ Return(r)

SpecRefine == InitRefine /\ [][NextRefine]_vars

\* the statuses committed before the first ERROR
UpToFailure(log) == SelectSeq(log, LAMBDA st : st # "ERROR")

\* the ocr_complete and ai_suggestion rows of a trail
ProcessingRows(trail) ==
    SelectSeq(trail, LAMBDA e : e.action \in {"ocr_complete", "ai_suggestion"})

\* C26: for the same extraction, AI and commit outcomes, run_workflow with
\* DEFAULT_INVOICE_STEPS commits the statuses process_invoice committed
\* before its first failure, in the same order, writes the same ocr_complete
\* and ai_suggestion rows, fails exactly if process_invoice failed, and on
\* success has persisted the same Suggestion (account, VAT code, confidence,
\* risk level, notes).
C26_EngineRefinesInline ==
    inline # None =>
        LET was == The(inline) IN
        \A r \in Runs :
            /\ IsPrefix(status_log, UpToFailure(was.status_log))
            /\ IsPrefix(ProcessingRows(audit_log), ProcessingRows(was.audit_log))
            /\ pc[r] \in {"done", "raised"} =>
                /\ status_log = UpToFailure(was.status_log)
                /\ ProcessingRows(audit_log) = ProcessingRows(was.audit_log)
                /\ suggestions = was.suggestions
                /\ pc[r] = "done" <=> was.request.error = None
                /\ pc[r] = "done" => Len(suggestions) = 1

\* both have processed the invoice to the end and saved a high-risk
\* suggestion whose confidence the scoring halved to 0.30
C26_Witness ==
    /\ inline # None
    /\ \A r \in Runs : pc[r] = "done"
    /\ Len(The(inline).suggestions) = 1
    /\ suggestions[1].risk_level = "high"
    /\ suggestions[1].confidence_score = 30
=============================================================================
